---- MODULE Spec2Model ----
(***************************************************************************)
(* A model of gitlab-runner-auth.                                          *)
(*                                                                         *)
(*   - gitlab_runner_config.py: the stateless mode.  generate_runner_config*)
(*     loads the executor templates of an instance, reconciles them with   *)
(*     the runners registered at each GitLab (sync_runner_state) and       *)
(*     writes config.<instance>.toml.                                      *)
(*   - generate_config.py: the snapshot mode.  configure_runner keeps      *)
(*     data.json ({"shell": {id, token}, "batch": {id, token}}), verifies  *)
(*     the tokens, re-registers the invalid ones and renders config.toml.  *)
(*                                                                         *)
(* Strings are sequences of one-character strings, so that re.sub, join,   *)
(* split and format are computed as the code computes them.                *)
(***************************************************************************)
EXTENDS Integers, Sequences, FiniteSets, TLC

\* ------------------------------------------------------------------ bounds

\* How many times one host runs generate_runner_config / configure_runner.
MaxRuns == 2

\* ----------------------------------------------------------------- strings

Digits == {"0", "1", "2", "3", "4", "5", "6", "7", "8", "9"}

Managed == <<"m", "a", "n", "a", "g", "e", "d">>

Main == <<"m", "a", "i", "n">>

Shell == <<"s", "h", "e", "l", "l">>

Batch == <<"b", "a", "t", "c", "h">>

Docker == <<"d", "o", "c", "k", "e", "r">>

RunnerWord == <<"R", "u", "n", "n", "e", "r">>

HostN1 == <<"n", "1">>

HostN == <<"n">>

HostQ2 == <<"q", "2">>

\* ",".join(tags)
RECURSIVE Join(_)
Join(ts) ==
    IF ts = <<>> THEN <<>>
    ELSE IF Len(ts) = 1 THEN ts[1]
    ELSE ts[1] \o <<",">> \o Join(Tail(ts))

\* s.split(","), as the coordinator (and the tests' matchers) read a tag_list
RECURSIVE SplitAcc(_, _)
SplitAcc(s, cur) ==
    IF s = <<>> THEN <<cur>>
    ELSE IF Head(s) = "," THEN <<cur>> \o SplitAcc(Tail(s), <<>>)
    ELSE SplitAcc(Tail(s), Append(cur, Head(s)))

Split(s) == SplitAcc(s, <<>>)

Range(f) == {f[i] : i \in DOMAIN f}

NoDuplicates(s) == \A i, j \in DOMAIN s : s[i] = s[j] => i = j

\* list(a_set): some enumeration of the set, each element once
SetToSeq(S) ==
    CHOOSE f \in [1..Cardinality(S) -> S] : \A x \in S : \E i \in DOMAIN f : f[i] = x

\* every ordering of a finite set
Orderings(S) ==
    {f \in [1..Cardinality(S) -> S] : \A x \in S : \E i \in DOMAIN f : f[i] = x}

\* ------------------------------------------------ gitlab_runner_config.py

\* re.sub(r"\d", "", HOSTNAME)
StripDigits(s) == SelectSeq(s, LAMBDA ch : ch \notin Digits)

\* identifiers = set([HOSTNAME, re.sub(r"\d", "", HOSTNAME), "managed"])
Identifiers(host) == {host, StripDigits(host), Managed}

\* A slip: only the hostname itself is refused.
IdentifyingRaisesHostOnly(host, inst) == inst = host

\* identifying_tags raises ValueError
IdentifyingRaises(host, inst) == inst \in Identifiers(host)

\* A slip: a list, not a set, so that a hostname without digits comes twice.
identifying_tags_list(host, inst) == <<host, StripDigits(host), Managed, inst>>

\* identifying_tags returns list(identifiers) with the instance added
identifying_tags(host, inst) == SetToSeq(Identifiers(host) \cup {inst})

\* A dictionary is the sequence of its values in insertion order; a value is
\* a scalar or a list of scalars.
Scalar(v) == [list |-> FALSE, items |-> <<v>>]

ListOf(vs) == [list |-> TRUE, items |-> vs]

RECURSIVE flatten_values(_)
flatten_values(d) ==
    IF d = <<>> THEN <<>> ELSE Head(d).items \o flatten_values(Tail(d))

\* os.environ is a set of <<name, value>> pairs, one per set variable.
InEnviron(e, environ) == \E p \in environ : p[1] = e

Lookup(e, environ) == (CHOOSE p \in environ : p[1] = e)[2]

\* [os.environ[e] for e in env if e in os.environ]
RECURSIVE EnvValues(_, _)
EnvValues(env, environ) ==
    IF env = <<>> THEN <<>>
    ELSE (IF InEnviron(Head(env), environ)
          THEN <<Lookup(Head(env), environ)>> ELSE <<>>)
         \o EnvValues(Tail(env), environ)

\* generate_tags without a tag capture module and without a schema
generate_tags(host, inst, executor_type, env, environ) ==
    flatten_values(<<Scalar(host), Scalar(executor_type), Scalar(inst),
                     ListOf(EnvValues(env, environ))>>)

\* "{host} {instance} {executor} Runner".format(...)
Description(host, inst, executor) ==
    host \o <<" ">> \o inst \o <<" ">> \o executor \o <<" ">> \o RunnerWord

\* ---- capture_tags.py

\* a key of the properties that was not set
Unset == <<>>

Lsf == <<"l", "s", "f">>

Slurm == <<"s", "l", "u", "r", "m">>

Cobalt == <<"c", "o", "b", "a", "l", "t">>

\* a scheduler choice that looks for salloc before bsub
SchedulerSlurmFirst(installed) ==
    IF "salloc" \in installed THEN Slurm
    ELSE IF "bsub" \in installed THEN Lsf
    ELSE IF "cqsub" \in installed THEN Cobalt
    ELSE Unset

\* if which("bsub") ... elif which("salloc") ... elif which("cqsub")
Scheduler(installed) ==
    IF "bsub" \in installed THEN Lsf
    ELSE IF "salloc" \in installed THEN Slurm
    ELSE IF "cqsub" \in installed THEN Cobalt
    ELSE Unset

\* the one-character strings of a string, as `list += str` appends them
Chars(str) == [i \in 1..Len(str) |-> <<str[i]>>]

\* properties["custom"] += tag_schema['custom-name']+"_"+e: += on a list
\* extends it with the elements of the right-hand side, here the characters
\* of the string
ExtendCustom(custom, tag) == custom \o Chars(tag)

\* e in arch_info.ancestors: whether a string equals a Microarchitecture is
\* archspec's choice (`coerces`)
InAncestors(e, arch, coerces) == coerces /\ e \in Range(arch.ancestors)

\* for e in env: ... (with a tag schema)
RECURSIVE CaptureEnv(_, _, _, _, _)
CaptureEnv(props, env, schema, arch, coerces) ==
    IF env = <<>> THEN props
    ELSE LET e == Head(env)
             next == IF e \in schema.os_enum THEN [props EXCEPT !.os = e]
                     ELSE IF InAncestors(e, arch, coerces) THEN props
                     ELSE IF e \in schema.architecture_enum
                     THEN [props EXCEPT !.architecture = e]
                     ELSE [props EXCEPT !.custom =
                             ExtendCustom(@, schema.custom_name \o <<"_">> \o e)]
         IN CaptureEnv(next, Tail(env), schema, arch, coerces)

\* capture_tags(instance, executor_type, env, tag_schema); arch is
\* archspec.cpu.host(), installed the commands `which` finds, has_schema
\* whether tag_schema is truthy
capture_tags(executor_type, env, has_schema, schema, arch, installed, coerces) ==
    LET properties ==
            [architecture |-> arch.name, micro_architecture |-> arch.ancestors,
             custom |-> <<>>,
             scheduler |-> IF executor_type = Batch THEN Scheduler(installed) ELSE Unset,
             os |-> Unset]
    IN IF env # <<>> /\ has_schema
       THEN CaptureEnv(properties, env, schema, arch, coerces)
       ELSE properties

\* ---- create_runner and Runner.to_dict, on the config mapping

\* A slip: the Runner is built on the mapping itself, not on a copy, so the
\* del reaches the caller's mapping.
create_runner_alias(config) ==
    LET stripped == [k \in DOMAIN config \ {"client_configs"} |-> config[k]]
    IN [config |-> stripped, runner_config |-> stripped]

\* create_runner: config_copy = dict(config); del config_copy["client_configs"];
\* Runner(config_copy, ...).  `config` is the caller's mapping after the
\* call, `runner_config` the Runner's self.config
create_runner(config) ==
    [config |-> config,
     runner_config |-> [k \in DOMAIN config \ {"client_configs"} |-> config[k]]]

\* Runner.to_dict: config = dict(self.config); config["runners"] =
\* self.executor.configs
Runner_to_dict(runner_config, configs) ==
    [k \in DOMAIN runner_config \cup {"runners"} |->
        IF k = "runners" THEN configs ELSE runner_config[k]]

\* Executor.normalize on the executor configs load_executors has read
normalize(host, inst, configs) ==
    [i \in DOMAIN configs |->
        [url |-> configs[i].url, executor |-> configs[i].executor,
         env_tags |-> configs[i].env_tags,
         tags |-> generate_tags(host, inst, configs[i].executor, configs[i].env_tags, {}),
         description |-> Description(host, inst, configs[i].executor)]]

\* ------------------------------------------------------------------ state

Hosts == {1, 2}

Urls == {"A", "B"}

VARIABLES
    cfg,     \* per host: HOSTNAME, the instance name, os.environ, the executor
             \* templates (url, executor, env_tags) and client_configs
    coord,   \* per url: the runner records the coordinator holds
    nextId,  \* the next id (and token) the coordinators issue
    ctl,     \* per host: where generate_runner_config is
    tok,     \* per host: the "token" key of each loaded executor config
    file,    \* per host: config.<instance>.toml
    log,     \* per host: the remote calls of the current run
    runs,    \* per host: how many runs have started
    prev,    \* per host: how the run before the current one ended
    snap,    \* configure_runner: where it is, runner_config, changed
    disk,    \* the prefix of configure_runner: data.json, config.toml, the template
    slog,    \* configure_runner: the remote calls and the writes of the current run
    call     \* the last call of a function on its own: its arguments and result

sync == <<ctl, tok, file, log, runs, prev>>

snapshot == <<snap, disk, slog>>

vars == <<cfg, coord, nextId, ctl, tok, file, log, runs, prev, snap, disk, slog, call>>

NoCall == [fn |-> "none"]

\* c.get("token") is falsy: the key is absent
NoToken == 0

Templates(h) == cfg[h].templates

\* Executor.normalize: c["tags"]
Tags(h, i) ==
    generate_tags(cfg[h].hostname, cfg[h].instance, Templates(h)[i].executor,
                  Templates(h)[i].env_tags, cfg[h].environ)

\* Executor.normalize: c["description"]
Desc(h, i) == Description(cfg[h].hostname, cfg[h].instance, Templates(h)[i].executor)

\* self.by_description = {c["description"]: c for c in self.configs}: a later
\* config replaces an earlier one with the same description
HasDescription(h, d) == \E i \in DOMAIN Templates(h) : Desc(h, i) = d

by_description(h, d) ==
    CHOOSE i \in DOMAIN Templates(h) :
        /\ Desc(h, i) = d
        /\ \A j \in DOMAIN Templates(h) : Desc(h, j) = d => j <= i

\* Executor.add_token (the caller has checked HasDescription: no KeyError)
add_token(h, tk, d, token) == [tk EXCEPT ![by_description(h, d)] = token]

\* Executor.missing_token
missing_token(h, tk, url) ==
    SelectSeq([i \in DOMAIN Templates(h) |-> i],
              LAMBDA i : Templates(h)[i].url = url /\ tk[i] = NoToken)

\* Runner.to_dict: the runners list of the written config
to_dict(h, tk) ==
    [i \in DOMAIN Templates(h) |->
        [url |-> Templates(h)[i].url, executor |-> Templates(h)[i].executor,
         tags |-> Tags(h, i), description |-> Desc(h, i), token |-> tk[i]]]

\* GitLabClientManager.__init__: self.clients, a dict keyed by url, in
\* insertion order
RECURSIVE DictKeys(_)
DictKeys(cc) ==
    IF cc = <<>> THEN <<>>
    ELSE LET rest == DictKeys(SubSeq(cc, 1, Len(cc) - 1))
             u == cc[Len(cc)].url
         IN IF u \in Range(rest) THEN rest ELSE Append(rest, u)

Clients(h) == DictKeys(cfg[h].client_configs)

\* self.registration_tokens[url]: the last client config of that url
registration_tokens(h, url) ==
    LET cc == cfg[h].client_configs
        last == CHOOSE i \in DOMAIN cc :
                    cc[i].url = url /\ \A j \in DOMAIN cc : cc[j].url = url => j <= i
    IN cc[last].registration_token

\* The coordinator's answer to GET /runners/all?tag_list=...: the records that
\* carry every tag of the filter
Listed(url, tag_list) ==
    {r \in coord[url] : Range(Split(tag_list)) \subseteq r.tags}

Record(url, id) == CHOOSE r \in coord[url] : r.id = id

Exists(url, id) == \E r \in coord[url] : r.id = id

\* The remote calls of a run: the listings sent, the details fetched, the
\* deletions and the registrations sent, and whether one of them failed;
\* `loaded` is whether load_executors has read the templates
EmptyLog ==
    [list |-> <<>>, info |-> <<>>, del |-> <<>>, reg |-> <<>>, failed |-> FALSE,
     loaded |-> FALSE]

Idle == [pc |-> "idle", url |-> 0, listed |-> <<>>, rec |-> 0,
         missing |-> <<>>, mis |-> 0]

CurUrl(h) == Clients(h)[ctl[h].url]

\* ---- where the loops of sync_runner_state go next

\* the next endpoint of `for url, client in self.clients.items()`, or the end
ToUrl(h, k) ==
    IF k <= Len(Clients(h))
    THEN [pc |-> "list", url |-> k, listed |-> <<>>, rec |-> 0,
          missing |-> <<>>, mis |-> 0]
    ELSE [pc |-> "write", url |-> 0, listed |-> <<>>, rec |-> 0,
          missing |-> <<>>, mis |-> 0]

\* `for missing in runner.executor.missing_token(url)`: the list is computed
\* once, when the loop starts
ToMissing(h, c, tk) ==
    LET m == missing_token(h, tk, Clients(h)[c.url])
    IN IF m # <<>>
       THEN [c EXCEPT !.pc = "create", !.missing = m, !.mis = 1]
       ELSE ToUrl(h, c.url + 1)

\* the next record of the listing, or the registration loop
ToRecord(h, c, tk) ==
    IF c.rec < Len(c.listed)
    THEN [c EXCEPT !.pc = "get", !.rec = c.rec + 1]
    ELSE ToMissing(h, c, tk)

\* A slip: the run goes on to write the config after a failed call.
AbortSwallowed(h) ==
    /\ ctl' = [ctl EXCEPT ![h] = [Idle EXCEPT !.pc = "write"]]
    /\ UNCHANGED <<cfg, call, coord, nextId, tok, file, runs, prev, snapshot>>

\* A slip: the KeyError is swallowed and the record is kept.
OnKeyErrorIgnored(h, c) == ToRecord(h, c, tok[h])

\* except KeyError: the record has no executor config, it is to be deleted
OnKeyError(h, c) == [c EXCEPT !.pc = "delete"]

\* the next config of the registration loop, or the next endpoint
ToCreate(h, c) ==
    IF c.mis < Len(c.missing)
    THEN [c EXCEPT !.mis = c.mis + 1]
    ELSE ToUrl(h, c.url + 1)

\* How a run ended: what the next run is compared with.
Summary(h) == [outcome |-> ctl[h].pc, tok |-> tok[h], file |-> file[h]]

NoRun == [outcome |-> "none", tok |-> <<>>, file |-> [exists |-> FALSE, runners |-> <<>>]]

\* A remote call fails.  sync_runner_state turns GitlabAuthenticationError,
\* GitlabConnectionError and GitlabHttpError into SyncException, which
\* generate_runner_config answers with sys.exit(1); any other exception
\* leaves the program through the interpreter, with exit status 1 as well.
\* Neither writes the config.
Abort(h) ==
    /\ ctl' = [ctl EXCEPT ![h] = [Idle EXCEPT !.pc = "aborted"]]
    /\ UNCHANGED <<cfg, call, coord, nextId, tok, file, runs, prev, snapshot>>

\* ---- generate_runner_config, one action per remote call

\* A slip: only the bits of the group are looked at.
owner_only_permissions_group(mode) == (mode \div 8) % 8 = 0

\* owner_only_permissions: no bit of S_IRWXG (0o070) and none of S_IRWXO
\* (0o007) is set in st_mode
owner_only_permissions(mode) == ~((mode \div 8) % 8 # 0 \/ mode % 8 # 0)

\* secure_permissions(prefix, template_dir)
secure_permissions(prefix_mode, dir_mode) ==
    \A mode \in {prefix_mode, dir_mode} : owner_only_permissions(mode)

\* sys.exit(1) for loose permissions, or for FileNotFoundError when the
\* instance config template is read
StartFails(h) ==
    \/ ~secure_permissions(cfg[h].prefix_mode, cfg[h].dir_mode)
    \/ ~cfg[h].template

\* A slip: nothing is validated.
ValidatesAnything(properties, tag_schema) == TRUE

\* validate(instance=properties, schema=tag_schema), for a schema that gives
\* the property executor_type an enum
Validates(properties, tag_schema) ==
    properties.executor_type \in tag_schema.executor_type_enum

\* generate_tags: the properties of an executor config before they are
\* flattened
Properties(h, i) ==
    [hostname |-> cfg[h].hostname, executor_type |-> Templates(h)[i].executor,
     instance |-> cfg[h].instance,
     env |-> EnvValues(Templates(h)[i].env_tags, cfg[h].environ)]

\* Executor.normalize: generate_tags raises ValidationError for some config
\* (`if tag_schema: validate(...)`)
LoadFails(h) ==
    /\ cfg[h].tag_schema.present
    /\ \E i \in DOMAIN Templates(h) : ~Validates(Properties(h, i), cfg[h].tag_schema)

\* generate_runner_config up to the sync: the permissions are checked and
\* the instance config template is read; create_runner loads the executor
\* configs afresh from the templates (no token) and normalizes them; then
\* the sync begins
Start(h) ==
    /\ ctl[h].pc \in {"idle", "done", "aborted"}
    /\ runs[h] < MaxRuns
    /\ runs' = [runs EXCEPT ![h] = @ + 1]
    /\ prev' = [prev EXCEPT ![h] = IF runs[h] = 0 THEN NoRun ELSE Summary(h)]
    /\ IF StartFails(h)
       THEN /\ tok' = [tok EXCEPT ![h] = <<>>]
            /\ log' = [log EXCEPT ![h] = EmptyLog]
            /\ ctl' = [ctl EXCEPT ![h] = [Idle EXCEPT !.pc = "aborted"]]
       ELSE IF LoadFails(h)
       THEN /\ tok' = [tok EXCEPT ![h] = <<>>]
            /\ log' = [log EXCEPT ![h] = [EmptyLog EXCEPT !.loaded = TRUE]]
            /\ ctl' = [ctl EXCEPT ![h] = [Idle EXCEPT !.pc = "aborted"]]
       ELSE /\ tok' = [tok EXCEPT ![h] = [i \in DOMAIN Templates(h) |-> NoToken]]
            /\ log' = [log EXCEPT ![h] = [EmptyLog EXCEPT !.loaded = TRUE]]
            /\ ctl' = [ctl EXCEPT ![h] = ToUrl(h, 1)]
    /\ UNCHANGED <<cfg, call, coord, nextId, file, snapshot>>

\* client.runners.all(tag_list=",".join(identifying_tags(self.instance)))
ListRunners(h) ==
    /\ ctl[h].pc = "list"
    /\ IF IdentifyingRaises(cfg[h].hostname, cfg[h].instance)
       THEN /\ log' = log
            /\ Abort(h)
       ELSE LET tag_list == Join(identifying_tags(cfg[h].hostname, cfg[h].instance))
                entry == [url |-> CurUrl(h), tag_list |-> tag_list, ids |-> <<>>]
            IN \/ /\ log' = [log EXCEPT ![h].list = Append(@, entry), ![h].failed = TRUE]
                  /\ Abort(h)
               \/ \E order \in Orderings({r.id : r \in Listed(CurUrl(h), tag_list)}) :
                     /\ log' = [log EXCEPT ![h].list =
                                  Append(@, [entry EXCEPT !.ids = order])]
                     /\ ctl' = [ctl EXCEPT ![h] =
                                  ToRecord(h, [@ EXCEPT !.listed = order], tok[h])]
                     /\ UNCHANGED <<cfg, call, coord, nextId, tok, file, runs, prev, snapshot>>

\* info = client.runners.get(r.id), then runner.executor.add_token(
\* info.description, info.token); on KeyError the record is to be deleted
GetRunner(h) ==
    /\ ctl[h].pc = "get"
    /\ LET id == ctl[h].listed[ctl[h].rec]
       IN IF ~Exists(CurUrl(h), id)
          THEN /\ log' = [log EXCEPT ![h].failed = TRUE]
               /\ Abort(h)
          ELSE LET info == Record(CurUrl(h), id)
                   entry == [url |-> CurUrl(h), id |-> id, by |-> info.by,
                             description |-> info.description, token |-> info.token]
               IN \/ /\ log' = [log EXCEPT ![h].failed = TRUE]
                     /\ Abort(h)
                  \/ /\ HasDescription(h, info.description)
                     /\ log' = [log EXCEPT ![h].info = Append(@, entry)]
                     /\ tok' = [tok EXCEPT ![h] =
                                  add_token(h, @, info.description, info.token)]
                     /\ ctl' = [ctl EXCEPT ![h] = ToRecord(h, @, tok'[h])]
                     /\ UNCHANGED <<cfg, call, coord, nextId, file, runs, prev, snapshot>>
                  \/ /\ ~HasDescription(h, info.description)
                     /\ log' = [log EXCEPT ![h].info = Append(@, entry)]
                     /\ ctl' = [ctl EXCEPT ![h] = OnKeyError(h, @)]
                     /\ UNCHANGED <<cfg, call, coord, nextId, tok, file, runs, prev, snapshot>>

\* client.runners.delete(r.id)
DeleteRunner(h) ==
    /\ ctl[h].pc = "delete"
    /\ LET id == ctl[h].listed[ctl[h].rec]
           entry == [url |-> CurUrl(h), id |-> id]
       IN \/ /\ log' = [log EXCEPT ![h].del = Append(@, entry), ![h].failed = TRUE]
             /\ Abort(h)
          \/ /\ log' = [log EXCEPT ![h].del = Append(@, entry)]
             /\ Exists(CurUrl(h), id)
             /\ coord' = [coord EXCEPT ![CurUrl(h)] = @ \ {Record(CurUrl(h), id)}]
             /\ ctl' = [ctl EXCEPT ![h] = ToRecord(h, @, tok[h])]
             /\ UNCHANGED <<cfg, call, nextId, tok, file, runs, prev, snapshot>>

\* info = client.runners.create({...}), then runner.executor.add_token(
\* missing["description"], info.token)
CreateRunner(h) ==
    /\ ctl[h].pc = "create"
    /\ LET i == ctl[h].missing[ctl[h].mis]
           url == CurUrl(h)
           tag_list == Join(Tags(h, i))
           entry == [url |-> url, decl |-> i, description |-> Desc(h, i),
                     token |-> registration_tokens(h, url),
                     tag_list |-> tag_list, issued |-> nextId,
                     holder |-> by_description(h, Desc(h, i))]
           rec == [id |-> nextId, token |-> nextId, description |-> Desc(h, i),
                   tags |-> Range(Split(tag_list)), by |-> h]
       IN \/ /\ log' = [log EXCEPT ![h].reg =
                          Append(@, [entry EXCEPT !.issued = NoToken]),
                                   ![h].failed = TRUE]
             /\ Abort(h)
          \/ /\ log' = [log EXCEPT ![h].reg = Append(@, entry)]
             /\ coord' = [coord EXCEPT ![url] = @ \cup {rec}]
             /\ nextId' = nextId + 1
             /\ tok' = [tok EXCEPT ![h] = add_token(h, @, Desc(h, i), nextId)]
             /\ ctl' = [ctl EXCEPT ![h] = ToCreate(h, @)]
             /\ UNCHANGED <<cfg, call, file, runs, prev, snapshot>>

\* instance_config_file.write_text(toml.dumps(runner.to_dict()))
WriteConfig(h) ==
    /\ ctl[h].pc = "write"
    /\ file' = [file EXCEPT ![h] = [exists |-> TRUE, runners |-> to_dict(h, tok[h])]]
    /\ log' = log
    /\ ctl' = [ctl EXCEPT ![h] = [Idle EXCEPT !.pc = "done"]]
    /\ UNCHANGED <<cfg, call, coord, nextId, tok, runs, prev, snapshot>>

Step(h) ==
    \/ Start(h)
    \/ ListRunners(h)
    \/ GetRunner(h)
    \/ DeleteRunner(h)
    \/ CreateRunner(h)
    \/ WriteConfig(h)

\* ------------------------------------------------------ generate_config.py

\* --api-url: the one coordinator of the snapshot mode
ApiUrl == "A"

\* the host that runs configure_runner
Local == 1

\* generate_tags(): [socket.gethostname()]
snapshot_tags == <<cfg[Local].hostname>>

\* "description": tags[0] + "-" + runner_type
SnapshotDescription(runner_type) == snapshot_tags[1] \o <<"-">> \o runner_type

\* for t in ["shell", "batch"]
RunnerTypes == <<Shell, Batch>>

\* json.dumps(runner_config, sort_keys=True): "batch" comes before "shell",
\* and json.loads gives the keys back in the order of the file
KeyOrder == <<Batch, Shell>>

SortKeys(m) ==
    LET at(k) == IF \E e \in Range(m) : e.name = KeyOrder[k]
                 THEN <<CHOOSE e \in Range(m) : e.name = KeyOrder[k]>>
                 ELSE <<>>
    IN at(1) \o at(2)

\* POST /runners/verify answers 200 to the token of a runner the coordinator
\* holds and 403 to any other.
TokenValid(token) == \E r \in coord[ApiUrl] : r.token = token

TokenOf(m, name) == (CHOOSE e \in Range(m) : e.name = name).token

NoFile == [exists |-> FALSE, entries |-> <<>>]

NoToml == [exists |-> FALSE, shell_token |-> NoToken, batch_token |-> NoToken]

SnapIdle == [pc |-> "idle", mem |-> <<>>, idx |-> 0, changed |-> FALSE, runs |-> 0]

\* The calls and the writes of a run, and the files as the run found them
EmptySlog(d) ==
    [verify |-> <<>>, del |-> <<>>, reg |-> <<>>, fault |-> FALSE,
     wroteData |-> FALSE, wroteToml |-> FALSE, before |-> d]

\* A call fails for a reason the coordinator's records do not decide (the
\* network, a 5xx): sys.exit(1), or an exception nobody catches.
SnapFault(sl) ==
    /\ snap' = [snap EXCEPT !.pc = "aborted"]
    /\ slog' = [sl EXCEPT !.fault = TRUE]
    /\ UNCHANGED <<cfg, call, sync, coord, nextId, disk>>

\* response.status != 204 (or HTTPError 403) in delete_existing_runner:
\* sys.exit(1).
SnapRefused(sl) ==
    /\ snap' = [snap EXCEPT !.pc = "aborted"]
    /\ slog' = sl
    /\ UNCHANGED <<cfg, call, sync, coord, nextId, disk>>

\* A slip: the files are written whether or not a token changed.
NeedsWriteAlways(changed) == TRUE

\* if changed:
NeedsWrite(changed) == changed

\* A slip: the two tokens land in each other's placeholder.
update_runner_config_swapped(m) ==
    [exists |-> TRUE, shell_token |-> TokenOf(m, Batch), batch_token |-> TokenOf(m, Shell)]

\* update_runner_config: template.format(hostname=..., shell_token=...,
\* batch_token=...)
update_runner_config(m) ==
    [exists |-> TRUE, shell_token |-> TokenOf(m, Shell), batch_token |-> TokenOf(m, Batch)]

\* with open(data_file, "w") as fh: fh.write(json.dumps(runner_config,
\* sort_keys=True)), then update_runner_config(...), which opens the
\* template first.  Without the template FileNotFoundError is raised with
\* config.toml untouched: inside the try it is caught by `except
\* FileNotFoundError`, which registers both runners as on a first run; in
\* that handler nobody catches it.
WriteFiles(m, inTry, sl) ==
    /\ disk' = [disk EXCEPT !.data = [exists |-> TRUE, entries |-> SortKeys(m)],
                            !.toml = IF disk.template THEN update_runner_config(m) ELSE @]
    /\ slog' = [sl EXCEPT !.wroteData = TRUE, !.wroteToml = @ \/ disk.template]
    /\ snap' = IF disk.template THEN [snap EXCEPT !.pc = "done", !.mem = m]
               ELSE IF inTry THEN [snap EXCEPT !.pc = "first", !.mem = <<>>, !.idx = 1]
               ELSE [snap EXCEPT !.pc = "aborted", !.mem = m]

\* the next entry of `for runner_type, data in runner_config.items()`, or
\* the end of the loop
AfterEntry(m, changed, sl) ==
    IF snap.idx < Len(m)
    THEN /\ snap' = [snap EXCEPT !.pc = "verify", !.mem = m, !.idx = @ + 1,
                                 !.changed = changed]
         /\ slog' = sl
         /\ disk' = disk
    ELSE IF NeedsWrite(changed)
    THEN WriteFiles(m, TRUE, sl)
    ELSE /\ snap' = [snap EXCEPT !.pc = "done", !.mem = m, !.changed = changed]
         /\ slog' = sl
         /\ disk' = disk

\* configure_runner begins: data.json is read, or found missing
SnapStart ==
    /\ snap.pc \in {"idle", "done", "aborted"}
    /\ snap.runs < MaxRuns
    /\ slog' = EmptySlog(disk)
    /\ snap' = IF disk.data.exists
               THEN [pc |-> "verify", mem |-> disk.data.entries, idx |-> 1,
                     changed |-> FALSE, runs |-> snap.runs + 1]
               ELSE [pc |-> "first", mem |-> <<>>, idx |-> 1,
                     changed |-> FALSE, runs |-> snap.runs + 1]
    /\ UNCHANGED <<cfg, call, sync, coord, nextId, disk>>

\* What POST /runners/verify may answer for a token: 200 or 403 by the
\* coordinator's records, or an error status, whatever the token
VerifyAnswers(token) ==
    (IF TokenValid(token) THEN {200} ELSE {403}) \cup {404, 500}

\* A slip: every error status is taken for "the token is invalid".
valid_runner_token_lenient(status) ==
    IF status \in 200..299 THEN "True" ELSE "False"

\* valid_runner_token: urlopen returns on a 2xx status (True) and raises
\* HTTPError otherwise; 403 gives False, any other status sys.exit(1)
valid_runner_token(status) ==
    IF status \in 200..299 THEN "True"
    ELSE IF status = 403 THEN "False"
    ELSE "exit"

\* if not valid_runner_token(api_url, data["token"]):
SnapVerify ==
    /\ snap.pc = "verify"
    /\ \E status \in VerifyAnswers(snap.mem[snap.idx].token) :
          LET e == snap.mem[snap.idx]
              outcome == valid_runner_token(status)
              sl == [slog EXCEPT !.verify =
                        Append(@, [name |-> e.name, token |-> e.token,
                                   status |-> status, valid |-> outcome = "True"])]
          IN CASE outcome = "exit" -> SnapFault(sl)
               [] outcome = "True" ->
                    /\ AfterEntry(snap.mem, snap.changed, sl)
                    /\ UNCHANGED <<cfg, call, sync, coord, nextId>>
               [] outcome = "False" ->
                    /\ snap' = [snap EXCEPT !.pc = "delete"]
                    /\ slog' = sl
                    /\ UNCHANGED <<cfg, call, sync, coord, nextId, disk>>

\* delete_existing_runner(api_url, data["token"], data["id"]).  DELETE
\* /runners authenticates the runner by the token in the body, as verify
\* does: a token the coordinator does not hold is answered 403 (the answer
\* of test_delete_runner_failure).  A coordinator that takes the removal of
\* a runner it no longer holds as done answers 204; both are allowed.
SnapDelete ==
    /\ snap.pc = "delete"
    /\ LET e == snap.mem[snap.idx]
           sl == [slog EXCEPT !.del = Append(@, [name |-> e.name, token |-> e.token,
                                                 held |-> TokenValid(e.token)])]
       IN \/ SnapFault(sl)
          \/ /\ ~TokenValid(e.token)
             /\ SnapRefused(sl)
          \/ /\ coord' = [coord EXCEPT ![ApiUrl] = {r \in @ : r.token # e.token}]
             /\ snap' = [snap EXCEPT !.pc = "register"]
             /\ slog' = sl
             /\ UNCHANGED <<cfg, call, sync, nextId, disk>>

\* the coordinator's answer to register_new_runner: 201 with a new id and token
Registered(runner_type) ==
    [id |-> nextId, token |-> nextId, description |-> SnapshotDescription(runner_type),
     tags |-> Range(Split(Join(snapshot_tags))), by |-> Local]

\* runner_config[runner_type] = register_new_runner(...); changed = True
SnapRegister ==
    /\ snap.pc = "register"
    /\ LET e == snap.mem[snap.idx]
           sent(i) == [slog EXCEPT !.reg = Append(@, [name |-> e.name, issued |-> i])]
           sl == sent(nextId)
       IN \/ SnapFault(sent(NoToken))
          \/ /\ coord' = [coord EXCEPT ![ApiUrl] = @ \cup {Registered(e.name)}]
             /\ nextId' = nextId + 1
             /\ UNCHANGED <<cfg, call, sync>>
             /\ AfterEntry([snap.mem EXCEPT ![snap.idx] =
                               [name |-> e.name, id |-> nextId, token |-> nextId]],
                           TRUE, sl)

\* except FileNotFoundError: runner_config = {t: register_new_runner(...) for
\* t in ["shell", "batch"]}, then the files are written
SnapFirst ==
    /\ snap.pc = "first"
    /\ LET t == RunnerTypes[snap.idx]
           sent(i) == [slog EXCEPT !.reg = Append(@, [name |-> t, issued |-> i])]
           sl == sent(nextId)
           m == Append(snap.mem, [name |-> t, id |-> nextId, token |-> nextId])
       IN \/ SnapFault(sent(NoToken))
          \/ /\ coord' = [coord EXCEPT ![ApiUrl] = @ \cup {Registered(t)}]
             /\ nextId' = nextId + 1
             /\ UNCHANGED <<cfg, call, sync>>
             /\ IF snap.idx < Len(RunnerTypes)
                THEN /\ snap' = [snap EXCEPT !.mem = m, !.idx = @ + 1]
                     /\ slog' = sl
                     /\ disk' = disk
                ELSE WriteFiles(m, FALSE, sl)

\* Somebody removes a runner at the coordinator (an administrator, or the
\* coordinator itself, pruning a stale runner).
RemovedAtCoordinator ==
    /\ \E r \in coord[ApiUrl] : coord' = [coord EXCEPT ![ApiUrl] = @ \ {r}]
    /\ UNCHANGED <<cfg, call, sync, nextId, snapshot>>

SnapStep ==
    \/ SnapStart
    \/ SnapVerify
    \/ SnapDelete
    \/ SnapRegister
    \/ SnapFirst
    \/ RemovedAtCoordinator

\* ------------------------------------------------------------ configurations

\* How many executor templates the template directory of a host holds.
MaxTemplates == 2

\* os.environ of a host: T is set, U is not
Environ == {<<"T", Managed>>}

\* env_tags of the templates of a directory: none, or U and T
EnvTagChoices == {<<>>, <<"U", "T">>}

TemplateChoices(env) == [url : Urls, executor : {Shell, Batch}, env_tags : {env}]

TemplateDirs ==
    UNION {[1..n -> TemplateChoices(env)] : n \in 0..MaxTemplates, env \in EnvTagChoices}

ClientConfig(u) == [url |-> u, registration_token |-> <<"r", u>>]

ClientConfigChoices ==
    {<<ClientConfig("A")>>, <<ClientConfig("A"), ClientConfig("B")>>}

\* A host and an instance name, among them the names identifying_tags refuses
Identities ==
    {<<HostN1, Main>>, <<HostN, Main>>, <<HostN1, HostN>>}

\* A record some earlier deployment of the same host and instance left at
\* the coordinator, carrying the identifying tags
Earlier(id, host, inst, executor) ==
    [id |-> id, token |-> id, description |-> Description(host, inst, executor),
     tags |-> Identifiers(host) \cup {inst, executor}, by |-> id - id]

\* --tag-schema was not given
NoSchema == [present |-> FALSE, executor_type_enum |-> {}]

\* A host whose prefix and template directory are owner-only (0o700), whose
\* instance config template is there, and that has no tag schema
HostConfig(ident, dir, cc) ==
    [hostname |-> ident[1], instance |-> ident[2], environ |-> Environ,
     templates |-> dir, client_configs |-> cc,
     prefix_mode |-> 7 * 64, dir_mode |-> 7 * 64, template |-> TRUE,
     tag_schema |-> NoSchema]

\* a host that never runs
Absent == HostConfig(<<HostQ2, Main>>, <<>>, <<>>)

InitLocal ==
    /\ ctl = [h \in Hosts |-> Idle]
    /\ tok = [h \in Hosts |-> <<>>]
    /\ file = [h \in Hosts |-> [exists |-> FALSE, runners |-> <<>>]]
    /\ log = [h \in Hosts |-> EmptyLog]
    /\ runs = [h \in Hosts |-> 0]
    /\ prev = [h \in Hosts |-> NoRun]
    /\ call = NoCall

\* configure_runner has not run: no data.json, no config.toml
InitSnapshot(template) ==
    /\ snap = SnapIdle
    /\ disk = [data |-> NoFile, toml |-> NoToml, template |-> template]
    /\ slog = EmptySlog([data |-> NoFile, toml |-> NoToml, template |-> template])

\* One host; the coordinator at A may hold a record of its shell executor
\* and a record of a docker executor it declares no more.
Init ==
    /\ \E ident \in Identities, dir \in TemplateDirs, cc \in ClientConfigChoices :
          /\ cfg = [h \in Hosts |-> IF h = 1 THEN HostConfig(ident, dir, cc) ELSE Absent]
          /\ \E old \in SUBSET {Earlier(1, ident[1], ident[2], Shell),
                                Earlier(2, ident[1], ident[2], Docker)} :
                coord = [u \in Urls |-> IF u = "A" THEN old ELSE {}]
    /\ nextId = 3
    /\ InitLocal
    /\ InitSnapshot(TRUE)

Next == Step(1)

Spec == Init /\ [][Next]_vars

\* The start of a run: one host with the coordinators A and B, templates
\* without env_tags, with any permissions on the prefix and the template directory, with or
\* without the instance config template, with or without a tag schema that
\* allows the executor type "shell" only.
Modes == {7 * 64, 7 * 64 + 1, 7 * 64 + 5 * 8, 7 * 64 + 7 * 8 + 7}

StartDirs == UNION {[1..n -> TemplateChoices(<<>>)] : n \in 0..MaxTemplates}

SchemaChoices == {NoSchema, [present |-> TRUE, executor_type_enum |-> {Shell}]}

InitStart ==
    /\ \E dir \in StartDirs, prefix_mode \in Modes, dir_mode \in Modes,
          template \in BOOLEAN, tag_schema \in SchemaChoices :
          cfg = [h \in Hosts |->
                   IF h = 1
                   THEN [HostConfig(<<HostN1, Main>>, dir,
                                    <<ClientConfig("A"), ClientConfig("B")>>)
                            EXCEPT !.prefix_mode = prefix_mode, !.dir_mode = dir_mode,
                                   !.template = template, !.tag_schema = tag_schema]
                   ELSE Absent]
    /\ \E old \in SUBSET {Earlier(1, HostN1, Main, Shell), Earlier(2, HostN1, Main, Docker)} :
          coord = [u \in Urls |-> IF u = "A" THEN old ELSE {}]
    /\ nextId = 3
    /\ InitLocal
    /\ InitSnapshot(TRUE)

NextStart == Step(1)

SpecStart == InitStart /\ [][NextStart]_vars

\* Two hosts with different hostnames, the same instance name and the same
\* coordinator A.  The second host may declare env_tags; its environment
\* holds T and a variable U whose value is the name of the first host.
EnvironOfSecond == {<<"T", Managed>>, <<"U", HostN>>}

Template(url, executor, env) == [url |-> url, executor |-> executor, env_tags |-> env]

DirsOfFirst == {<<>>, <<Template("A", Shell, <<>>)>>}

DirsOfSecond ==
    {<<Template("A", Shell, env)>> : env \in EnvTagChoices}
    \cup {<<Template("A", Shell, env), Template("A", Batch, env)>> : env \in EnvTagChoices}

InitHosts ==
    /\ \E d1 \in DirsOfFirst, d2 \in DirsOfSecond :
          cfg = [h \in Hosts |->
                   IF h = 1
                   THEN HostConfig(<<HostN, Main>>, d1, <<ClientConfig("A")>>)
                   ELSE [HostConfig(<<HostQ2, Main>>, d2, <<ClientConfig("A")>>)
                            EXCEPT !.environ = EnvironOfSecond]]
    /\ coord = [u \in Urls |-> {}]
    /\ nextId = 1
    /\ InitLocal
    /\ InitSnapshot(TRUE)

NextHosts == \E h \in Hosts : Step(h)

SpecHosts == InitHosts /\ [][NextHosts]_vars

\* ---- the functions on their own

\* How many entries an env list has.
MaxEnv == 2

PureHosts == {HostN1, HostN, HostQ2}

\* instance names, among them the hostname without digits, "managed" and
\* the name of an executor type
PureInstances == {Main, HostN, Managed, Shell}

\* an environment whose variable T holds the instance name, beside the others
PureEnvirons == {Environ, EnvironOfSecond, {<<"T", Main>>}}

\* env lists: names of environment variables, up to MaxEnv of them
PureEnvs == UNION {[1..n -> {"T", "U"}] : n \in 0..MaxEnv}

\* identifying_tags(instance) on a host
CallIdentifyingTags ==
    /\ call = NoCall
    /\ \E host \in PureHosts, inst \in PureInstances :
          call' = [fn |-> "identifying_tags", host |-> host, inst |-> inst,
                   raised |-> IdentifyingRaises(host, inst),
                   out |-> IF IdentifyingRaises(host, inst) THEN <<>>
                           ELSE identifying_tags(host, inst)]
    /\ UNCHANGED <<cfg, coord, nextId, sync, snapshot>>

\* generate_tags(instance, executor_type, env) on a host
CallGenerateTags ==
    /\ call = NoCall
    /\ \E host \in PureHosts, inst \in PureInstances, executor_type \in {Shell, Batch},
          env \in PureEnvs, environ \in PureEnvirons :
          call' = [fn |-> "generate_tags", host |-> host, inst |-> inst,
                   executor_type |-> executor_type, env |-> env, environ |-> environ,
                   out |-> generate_tags(host, inst, executor_type, env, environ)]
    /\ UNCHANGED <<cfg, coord, nextId, sync, snapshot>>

\* The schema of the calls: "d" is an os, "x" and "z" are architectures, the
\* custom name is "c"
PureSchema ==
    [os_enum |-> {<<"d">>}, architecture_enum |-> {<<"x">>, <<"z">>},
     custom_name |-> <<"c">>]

\* archspec.cpu.host(): the architecture "x", whose ancestor is "y"
PureArch == [name |-> <<"x">>, ancestors |-> <<<<"y">>>>]

\* env entries of capture_tags: an os, an architecture, an ancestor, and
\* two names the schema does not know
PureEntries == {<<"d">>, <<"z">>, <<"y">>, <<"m", "y">>, <<"q">>}

\* the scheduler commands `which` may find on the host
Executables == {"bsub", "salloc", "cqsub"}

\* capture_tags(instance, executor_type, env, tag_schema)
CallCaptureTags ==
    /\ call = NoCall
    /\ \E executor_type \in {Shell, Batch}, n \in 0..MaxEnv,
          has_schema \in BOOLEAN, coerces \in BOOLEAN,
          installed \in SUBSET Executables :
          \E env \in [1..n -> PureEntries] :
              call' = [fn |-> "capture_tags", executor_type |-> executor_type,
                       env |-> env, has_schema |-> has_schema, coerces |-> coerces,
                       installed |-> installed,
                       out |-> capture_tags(executor_type, env, has_schema, PureSchema,
                                            PureArch, installed, coerces)]
    /\ UNCHANGED <<cfg, coord, nextId, sync, snapshot>>

\* The client configs of an instance config template, each with the
\* registration token and the personal access token of its endpoint
PureClientConfigs ==
    LET cc(u) == [url |-> u, registration_token |-> <<"r", u>>,
                  personal_access_token |-> <<"p", u>>]
    IN {<<cc("A")>>, <<cc("A"), cc("B")>>}

\* The instance config templates: client_configs beside any of the global
\* settings of the runner
PureConfigs ==
    {[k \in keys \cup {"client_configs"} |->
         CASE k = "client_configs" -> cc
           [] k = "concurrent" -> 4
           [] k = "check_interval" -> 0] :
       keys \in SUBSET {"concurrent", "check_interval"}, cc \in PureClientConfigs}

\* runner = create_runner(config, instance, template_dir); runner.to_dict()
CallCreateRunner ==
    /\ call = NoCall
    /\ \E config \in PureConfigs, dir \in StartDirs :
          LET made == create_runner(config)
              configs == normalize(HostN1, Main, dir)
          IN call' = [fn |-> "create_runner", given |-> config, dir |-> dir,
                      config |-> made.config, runner_config |-> made.runner_config,
                      configs |-> configs,
                      out |-> Runner_to_dict(made.runner_config, configs)]
    /\ UNCHANGED <<cfg, coord, nextId, sync, snapshot>>

InitPure ==
    /\ cfg = [h \in Hosts |-> Absent]
    /\ coord = [u \in Urls |-> {}]
    /\ nextId = 1
    /\ InitLocal
    /\ InitSnapshot(TRUE)

NextPure ==
    \/ CallIdentifyingTags
    \/ CallGenerateTags
    \/ CallCaptureTags
    \/ CallCreateRunner

SpecPure == InitPure /\ [][NextPure]_vars

\* The snapshot mode: one host, a coordinator that holds no runner of it, no
\* data.json; the template may be missing.
InitSnap ==
    /\ \E host \in {HostN1, HostN} :
          cfg = [h \in Hosts |-> IF h = Local THEN HostConfig(<<host, Main>>, <<>>, <<>>)
                                 ELSE Absent]
    /\ coord = [u \in Urls |-> {}]
    /\ nextId = 1
    /\ InitLocal
    /\ \E template \in BOOLEAN : InitSnapshot(template)

NextSnap == SnapStep

SpecSnap == InitSnap /\ [][NextSnap]_vars

\* ---- the snapshot mode, re-invoked

\* Between two runs somebody removes a runner at the coordinator; while a
\* run is under way the coordinator's records change by the run's calls only.
RemovedBetweenRuns ==
    /\ snap.pc \in {"idle", "done", "aborted"}
    /\ RemovedAtCoordinator

\* a step of a run of configure_runner that has begun
SnapRunStep ==
    \/ SnapVerify
    \/ SnapDelete
    \/ SnapRegister
    \/ SnapFirst

\* The entries of data.json after the first run: shell was registered first
EarlierEntries == <<[name |-> Shell, id |-> 1, token |-> 1], [name |-> Batch, id |-> 2, token |-> 2]>>

\* The record the coordinator made of one of them
EarlierRecord(host, e) ==
    [id |-> e.id, token |-> e.token, description |-> host \o <<"-">> \o e.name,
     tags |-> {host}, by |-> Local]

\* The host after a first run of configure_runner that completed: data.json
\* and config.toml hold the tokens of shell and batch; since then the template
\* may have gone, and runners may have been removed at the coordinator.
InitSnapLive ==
    /\ \E host \in {HostN1, HostN} :
          /\ cfg = [h \in Hosts |-> IF h = Local THEN HostConfig(<<host, Main>>, <<>>, <<>>)
                                    ELSE Absent]
          /\ \E held \in SUBSET Range(EarlierEntries) :
                coord = [u \in Urls |-> IF u = ApiUrl
                                        THEN {EarlierRecord(host, e) : e \in held}
                                        ELSE {}]
    /\ nextId = 3
    /\ InitLocal
    /\ snap = SnapIdle
    /\ \E template \in BOOLEAN :
          LET d == [data |-> [exists |-> TRUE, entries |-> SortKeys(EarlierEntries)],
                    toml |-> update_runner_config(EarlierEntries),
                    template |-> template]
          IN /\ disk = d
             /\ slog = EmptySlog(d)

\* How many ids the coordinator has issued when the re-invocations end.
MaxIds == 5

\* configure_runner begins once more, after the runs that are counted; the
\* service is restarted as long as the coordinator has issued at most
\* MaxIds ids
SnapRestart ==
    /\ snap.pc \in {"done", "aborted"}
    /\ snap.runs = MaxRuns
    /\ nextId <= MaxIds
    /\ slog' = EmptySlog(disk)
    /\ snap' = IF disk.data.exists
               THEN [pc |-> "verify", mem |-> disk.data.entries, idx |-> 1,
                     changed |-> FALSE, runs |-> snap.runs]
               ELSE [pc |-> "first", mem |-> <<>>, idx |-> 1,
                     changed |-> FALSE, runs |-> snap.runs]
    /\ UNCHANGED <<cfg, call, sync, coord, nextId, disk>>

\* configure_runner is started
SnapInvoked ==
    \/ SnapStart
    \/ SnapRestart

NextSnapLive ==
    \/ SnapInvoked
    \/ SnapRunStep
    \/ RemovedBetweenRuns

\* configure_runner is the ExecStartPre of the runner's service: it is
\* started again and again, and a run that has begun goes on to its end.
SpecSnapLive ==
    /\ InitSnapLive
    /\ [][NextSnapLive]_vars
    /\ WF_vars(SnapInvoked)
    /\ WF_vars(SnapRunStep)

\* --------------------------------------------------- properties, stateless

Count(s, P(_)) == Cardinality({k \in DOMAIN s : P(s[k])})

\* No two executor configs of the host have the same description.
UniqueDescriptions(h) ==
    \A i, j \in DOMAIN Templates(h) : Desc(h, i) = Desc(h, j) => i = j

\* Two executor configs have the same url and the same description.
DuplicateDeclarations(h) ==
    \E i, j \in DOMAIN Templates(h) :
        /\ i # j
        /\ Templates(h)[i].url = Templates(h)[j].url
        /\ Desc(h, i) = Desc(h, j)

\* Every executor config names the url of a client config.
AllUrlsServed(h) ==
    \A i \in DOMAIN Templates(h) : Templates(h)[i].url \in Range(Clients(h))

AllRegistered(h) == \A i \in DOMAIN tok[h] : tok[h][i] # NoToken

\* C1: a run that completes right after a completed run of the same host
\* (unique descriptions, every url served, nobody else changing the
\* coordinator) sends no registration and no deletion, leaves every executor
\* config with the token of the first run and writes the same config.
C1_Idempotent ==
    \A h \in Hosts :
        ( /\ ctl[h].pc = "done"
          /\ prev[h].outcome = "done"
          /\ UniqueDescriptions(h)
          /\ AllUrlsServed(h) )
        => /\ log[h].reg = <<>>
           /\ log[h].del = <<>>
           /\ tok[h] = prev[h].tok
           /\ file[h] = prev[h].file

\* C2: a completed run leaves every executor config with a token, and the
\* config file is never written with an executor config that has none.
C2_ConfigOnlyWhenAllRegistered ==
    \A h \in Hosts :
        /\ ctl[h].pc = "done" => AllRegistered(h)
        /\ file[h].exists =>
              \A i \in DOMAIN file[h].runners : file[h].runners[i].token # NoToken

\* no remote call was sent in the run
NoCalls(h) ==
    /\ log[h].list = <<>>
    /\ log[h].info = <<>>
    /\ log[h].del = <<>>
    /\ log[h].reg = <<>>

\* C3: with two executor configs of the same url and description, no call
\* reaches a coordinator and no config file is written.
C3_DuplicateDescriptionRejected ==
    \A h \in Hosts :
        DuplicateDeclarations(h) =>
            /\ NoCalls(h)
            /\ ctl[h].pc # "done"
            /\ ~file[h].exists

\* C7: the tag_list of every listing sent is non-empty, without a duplicate,
\* and holds the hostname and the instance name.
C7_ListingScoped ==
    \A h \in Hosts :
        \A k \in DOMAIN log[h].list :
            LET tags == Split(log[h].list[k].tag_list)
            IN /\ log[h].list[k].tag_list # <<>>
               /\ tags # <<>>
               /\ NoDuplicates(tags)
               /\ cfg[h].hostname \in Range(tags)
               /\ cfg[h].instance \in Range(tags)

\* C7: a run has sent its listing to two endpoints.
C7_Witness ==
    \E h \in Hosts :
        /\ Len(log[h].list) = 2
        /\ log[h].list[1].url # log[h].list[2].url

Deletions(h, url, id) == Count(log[h].del, LAMBDA e : e.url = url /\ e.id = id)

\* the listing returned the record and the run fetched its detail
Fetched(h, url, id) == \E k \in DOMAIN log[h].info : log[h].info[k].id = id

\* C8: a listed record whose description is that of no executor config is
\* deleted by at most one call, by exactly one when the sync completes, and
\* no registration carries its description; a completed sync has fetched
\* every record its listings returned.
C8_OrphanDeleted ==
    \A h \in Hosts :
        /\ \A k \in DOMAIN log[h].info :
              LET e == log[h].info[k]
              IN ~HasDescription(h, e.description) =>
                    /\ Deletions(h, e.url, e.id) <= 1
                    /\ ctl[h].pc \in {"write", "done"} => Deletions(h, e.url, e.id) = 1
                    /\ \A r \in DOMAIN log[h].reg :
                          log[h].reg[r].description # e.description
        /\ ctl[h].pc \in {"write", "done"} =>
              \A k \in DOMAIN log[h].list :
                  \A n \in DOMAIN log[h].list[k].ids :
                      Fetched(h, log[h].list[k].url, log[h].list[k].ids[n])

\* C8: a sync completed that was handed a record of an executor the host
\* declares no more, beside executor configs it registered.
C8_Witness ==
    \E h \in Hosts :
        /\ ctl[h].pc = "done"
        /\ log[h].reg # <<>>
        /\ \E k \in DOMAIN log[h].info :
              /\ ~HasDescription(h, log[h].info[k].description)
              /\ Deletions(h, log[h].info[k].url, log[h].info[k].id) = 1

\* C9: a listed record whose description is that of an executor config is not
\* deleted, no registration of the run carries that description, and when the
\* sync completes the config holds the token of such a record (here for
\* hosts without two executor configs of one url and description, every url
\* served).
C9_Adopted ==
    \A h \in Hosts :
        (~DuplicateDeclarations(h) /\ AllUrlsServed(h)) =>
            \A k \in DOMAIN log[h].info :
                LET e == log[h].info[k]
                IN HasDescription(h, e.description) =>
                      /\ Deletions(h, e.url, e.id) = 0
                      /\ \A r \in DOMAIN log[h].reg :
                            log[h].reg[r].description # e.description
                      /\ ctl[h].pc \in {"write", "done"} =>
                            \E m \in DOMAIN log[h].info :
                                /\ log[h].info[m].description = e.description
                                /\ tok[h][by_description(h, e.description)]
                                      = log[h].info[m].token

\* C10: every registration is sent to the url of its executor config with the
\* registration token of that url and the config's own description and tags,
\* no executor config is registered twice, the token issued is attached to
\* the config that was registered, and after a completed sync no executor
\* config of a served url lacks a token (here for hosts without two executor
\* configs of one url and description, every url served).
C10_GapFilled ==
    \A h \in Hosts :
        (~DuplicateDeclarations(h) /\ AllUrlsServed(h)) =>
            /\ \A r \in DOMAIN log[h].reg :
                  LET e == log[h].reg[r]
                  IN /\ Templates(h)[e.decl].url = e.url
                     /\ e.token = registration_tokens(h, e.url)
                     /\ e.description = Desc(h, e.decl)
                     /\ Split(e.tag_list) = Tags(h, e.decl)
                     /\ e.issued # NoToken => e.holder = e.decl
                     /\ \A q \in DOMAIN log[h].reg : log[h].reg[q].decl = e.decl => q = r
            /\ ctl[h].pc \in {"write", "done"} =>
                  \A u \in Range(Clients(h)) : missing_token(h, tok[h], u) = <<>>

\* C6: a host deletes no record that the other host registered and takes the
\* token of no such record.
C6_NoCrossHostInterference ==
    \A h \in Hosts :
        \A k \in DOMAIN log[h].info :
            LET e == log[h].info[k]
            IN e.by \in Hosts \ {h} =>
                  /\ Deletions(h, e.url, e.id) = 0
                  /\ ~HasDescription(h, e.description)

\* Every verify of the run was answered 200
AllVerifiedValid ==
    /\ Len(slog.verify) = Len(snap.mem)
    /\ \A k \in DOMAIN slog.verify : slog.verify[k].valid

\* The entry of runner type `name` holds `token` in data.json and config.toml
Holds(name, token) ==
    /\ disk.data.exists
    /\ \E e \in Range(disk.data.entries) : e.name = name /\ e.token = token
    /\ disk.toml.exists
    /\ token = IF name = Shell THEN disk.toml.shell_token ELSE disk.toml.batch_token

\* C4: in a run of configure_runner in which no call failed for a reason other
\* than the coordinator's records and the template is there, every entry that
\* verify reported invalid has been deleted and registered anew by the end of
\* the run, and holds a token other than the old one, which the coordinator
\* accepts, in data.json and in config.toml.
C4_StaleRefreshed ==
    (snap.pc \in {"done", "aborted"} /\ ~slog.fault /\ disk.template) =>
        \A k \in DOMAIN slog.verify :
            LET v == slog.verify[k]
            IN ~v.valid =>
                  /\ snap.pc = "done"
                  /\ \E d \in DOMAIN slog.del : slog.del[d].token = v.token
                  /\ \E r \in DOMAIN slog.reg : slog.reg[r].name = v.name
                  /\ \E e \in Range(snap.mem) :
                        /\ e.name = v.name
                        /\ e.token # v.token
                        /\ Holds(v.name, e.token)

\* C5: a run that found data.json and had every verify answered 200 sends no
\* register and no delete and writes neither data.json nor config.toml, which
\* stay as the run found them; and a run that wrote data.json found none or
\* left in it a token other than the one it found.
C5_ValidSnapshotUntouched ==
    /\ (snap.pc = "done" /\ slog.before.data.exists /\ AllVerifiedValid) =>
          /\ slog.reg = <<>>
          /\ slog.del = <<>>
          /\ ~slog.wroteData
          /\ ~slog.wroteToml
          /\ disk = slog.before
    /\ slog.wroteData =>
          \/ ~slog.before.data.exists
          \/ \E e \in Range(disk.data.entries) :
                \E b \in Range(slog.before.data.entries) :
                    e.name = b.name /\ e.token # b.token

\* C5: a run over a snapshot of two entries ended with both verified valid.
C5_Witness ==
    /\ snap.pc = "done"
    /\ slog.before.data.exists
    /\ Len(slog.verify) = Len(RunnerTypes)
    /\ AllVerifiedValid

\* C11: when a remote call of generate_runner_config has failed the run is
\* aborted (it exits non-zero), the config file is as the run found it, and
\* the run sends no further call; after a failed registration in particular
\* no config is written.
C11_RemoteFailureFatal ==
    [][\A h \in Hosts :
          /\ log'[h].failed =>
                /\ ctl'[h].pc = "aborted"
                /\ file'[h] = prev'[h].file
          /\ (\E r \in DOMAIN log'[h].reg : log'[h].reg[r].issued = NoToken) =>
                /\ log'[h].failed
                /\ log'[h].reg[Len(log'[h].reg)].issued = NoToken
          /\ (log[h].failed /\ runs'[h] = runs[h]) =>
                /\ log'[h] = log[h]
                /\ file'[h] = file[h]]_vars

\* C11: a run that had registered one executor config was aborted by the
\* failure of a later call, with an earlier config file in place.
C11_Witness ==
    \E h \in Hosts :
        /\ log[h].failed
        /\ ctl[h].pc = "aborted"
        /\ \E r \in DOMAIN log[h].reg : log[h].reg[r].issued # NoToken
        /\ file[h].exists

\* C13: a verify answered with a 2xx status counts the token valid, one
\* answered 403 counts it invalid and the run goes on to delete the runner,
\* and one answered with any other status aborts the run, with no delete
\* sent for that token.
C13_VerifyOutcomes ==
    \A k \in DOMAIN slog.verify :
        LET v == slog.verify[k]
            deleted == \E d \in DOMAIN slog.del : slog.del[d].token = v.token
        IN /\ v.status \in 200..299 => (v.valid /\ ~deleted)
           /\ v.status = 403 =>
                 /\ ~v.valid
                 /\ deleted \/ (k = Len(slog.verify) /\ snap.pc = "delete")
           /\ (v.status \notin 200..299 /\ v.status # 403) =>
                 /\ ~v.valid
                 /\ ~deleted
                 /\ k = Len(slog.verify)
                 /\ snap.pc = "aborted"
                 /\ slog.fault

\* C13: a run that saw a verify answered 200 and one answered 403, whose
\* runner it registered anew, has completed.
C13_Witness ==
    /\ \E k \in DOMAIN slog.verify : slog.verify[k].status = 200
    /\ \E k \in DOMAIN slog.verify : slog.verify[k].status = 403
    /\ slog.reg # <<>>
    /\ snap.pc = "done"

\* C12: a run of configure_runner that a failed remote call aborted leaves
\* data.json and config.toml as it found them.
C12_AbortLeavesFiles ==
    (snap.pc = "aborted" /\ slog.fault) =>
        /\ disk.data = slog.before.data
        /\ disk.toml = slog.before.toml

\* C15: a completed run that found no data.json has sent two registrations,
\* one for shell and one for batch, and nothing else; data.json maps shell
\* and batch to the id and the token issued for each, and config.toml holds
\* the shell token and the batch token in their own places.
C15_FirstRun ==
    (snap.pc = "done" /\ ~slog.before.data.exists) =>
        /\ slog.verify = <<>>
        /\ slog.del = <<>>
        /\ Len(slog.reg) = 2
        /\ {slog.reg[r].name : r \in DOMAIN slog.reg} = {Shell, Batch}
        /\ disk.data.exists
        /\ Len(disk.data.entries) = 2
        /\ \A r \in DOMAIN slog.reg :
              /\ slog.reg[r].issued # NoToken
              /\ \E e \in Range(disk.data.entries) :
                    /\ e.name = slog.reg[r].name
                    /\ e.id = slog.reg[r].issued
                    /\ e.token = slog.reg[r].issued
              /\ Holds(slog.reg[r].name, slog.reg[r].issued)

\* C15: the first run has completed.
C15_Witness ==
    /\ snap.pc = "done"
    /\ snap.runs = 1
    /\ ~slog.before.data.exists
    /\ disk.toml.exists
    /\ disk.toml.shell_token # disk.toml.batch_token

\* C16: the list generate_tags returns is not empty and has no duplicate.
C16_TagsDistinct ==
    call.fn = "generate_tags" =>
        /\ call.out # <<>>
        /\ NoDuplicates(call.out)

\* C17: the list generate_tags returns holds the hostname, the hostname
\* without its digits, and the instance name.
C17_TagsHoldHostNames ==
    call.fn = "generate_tags" =>
        /\ call.host \in Range(call.out)
        /\ StripDigits(call.host) \in Range(call.out)
        /\ call.inst \in Range(call.out)

\* C18: identifying_tags raises exactly for an instance name that is the
\* hostname, the hostname without its digits or "managed"; otherwise it
\* returns a list without a duplicate whose elements are the hostname, the
\* hostname without its digits, "managed" and the instance name.
C18_IdentifyingTags ==
    call.fn = "identifying_tags" =>
        /\ call.raised <=> \/ call.inst = call.host
                           \/ call.inst = StripDigits(call.host)
                           \/ call.inst = Managed
        /\ ~call.raised =>
              /\ NoDuplicates(call.out)
              /\ Range(call.out) = {call.host, StripDigits(call.host), Managed, call.inst}

\* C18: identifying_tags returned four tags for a hostname with a digit.
C18_Witness ==
    /\ call.fn = "identifying_tags"
    /\ ~call.raised
    /\ call.host # StripDigits(call.host)
    /\ Len(call.out) = 4

\* the entries of an env list that capture_tags takes for an os, for an
\* architecture, and for neither
OsEntries(c) == SelectSeq(c.env, LAMBDA e : e \in PureSchema.os_enum)

ArchitectureEntries(c) ==
    SelectSeq(c.env, LAMBDA e : /\ e \notin PureSchema.os_enum
                                /\ ~InAncestors(e, PureArch, c.coerces)
                                /\ e \in PureSchema.architecture_enum)

OtherEntries(c) ==
    SelectSeq(c.env, LAMBDA e : /\ e \notin PureSchema.os_enum
                                /\ ~InAncestors(e, PureArch, c.coerces)
                                /\ e \notin PureSchema.architecture_enum)

\* C20: with a schema, the os field is the (last) env entry of the os enum,
\* the architecture field the (last) entry of the architecture enum, and the
\* custom list has one element "<custom-name>_<entry>" for each other entry.
C20_CaptureClassifies ==
    (call.fn = "capture_tags" /\ call.has_schema) =>
        LET os == OsEntries(call)
            arch == ArchitectureEntries(call)
            other == OtherEntries(call)
        IN /\ os # <<>> => call.out.os = os[Len(os)]
           /\ arch # <<>> => call.out.architecture = arch[Len(arch)]
           /\ call.out.custom =
                 [k \in 1..Len(other) |-> PureSchema.custom_name \o <<"_">> \o other[k]]

\* C14: a host whose prefix or template directory grants a bit to group or
\* other, or whose instance config template is missing, ends every run
\* aborted, with no executor config loaded, no remote call sent and no config
\* file written.
C14_LoosePermissionsFatal ==
    \A h \in Hosts :
        ( /\ runs[h] > 0
          /\ \/ cfg[h].prefix_mode % 64 # 0
             \/ cfg[h].dir_mode % 64 # 0
             \/ ~cfg[h].template )
        => /\ ctl[h].pc = "aborted"
           /\ ~log[h].loaded
           /\ tok[h] = <<>>
           /\ NoCalls(h)
           /\ ~file[h].exists

\* C14: a run was refused for a directory that only lets others search it,
\* on a host that declares executors.
C14_Witness ==
    \E h \in Hosts :
        /\ runs[h] > 0
        /\ cfg[h].prefix_mode % 8 = 1
        /\ cfg[h].dir_mode % 64 = 0
        /\ cfg[h].template
        /\ Templates(h) # <<>>
        /\ ctl[h].pc = "aborted"

\* C19: on a host with a tag schema and an executor config whose properties
\* the schema refuses, every run aborts once the templates are read: no
\* remote call is sent and no config file is written.
C19_SchemaFailureFatal ==
    \A h \in Hosts :
        ( /\ runs[h] > 0
          /\ ~StartFails(h)
          /\ cfg[h].tag_schema.present
          /\ \E i \in DOMAIN Templates(h) :
                Templates(h)[i].executor \notin cfg[h].tag_schema.executor_type_enum )
        => /\ ctl[h].pc = "aborted"
           /\ log[h].loaded
           /\ NoCalls(h)
           /\ ~file[h].exists

\* C19: a run was aborted by the schema on a host with one executor config
\* the schema accepts and one it refuses, the coordinator holding a record
\* of the host.
C19_Witness ==
    \E h \in Hosts :
        /\ runs[h] > 0
        /\ ~StartFails(h)
        /\ cfg[h].tag_schema.present
        /\ \E i, j \in DOMAIN Templates(h) :
              /\ Templates(h)[i].executor = Shell
              /\ Templates(h)[j].executor = Batch
        /\ coord["A"] # {}
        /\ ctl[h].pc = "aborted"

\* the schedulers in the order of their priority, each with its executable
SchedulerOrder == <<<<"bsub", Lsf>>, <<"salloc", Slurm>>, <<"cqsub", Cobalt>>>>

\* C21: for executor type batch the scheduler field of capture_tags is the
\* first of lsf, slurm, cobalt whose executable (bsub, salloc, cqsub) is
\* present, and is unset when none is; for any other executor type it is
\* unset whatever is present.
C21_SchedulerPriority ==
    call.fn = "capture_tags" =>
        LET present == SelectSeq(SchedulerOrder, LAMBDA p : p[1] \in call.installed)
        IN IF call.executor_type = Batch /\ present # <<>>
           THEN call.out.scheduler = present[1][2]
           ELSE call.out.scheduler = Unset

\* a batch call on a host where all three executables are present
C21_Witness ==
    /\ call.fn = "capture_tags"
    /\ call.executor_type = Batch
    /\ call.installed = Executables
    /\ call.out.scheduler = Lsf

\* data.json is there and the coordinator accepts the token of each entry
SnapshotAccepted ==
    /\ disk.data.exists
    /\ \A e \in Range(disk.data.entries) : TokenValid(e.token)

\* C22: after a run of configure_runner aborted at a failed remote call, a
\* later run ends, and ends either with every entry of data.json holding a
\* token the coordinator accepts or at a remote call that failed in its
\* turn; so runs without a failed call bring the snapshot back to accepted
\* tokens.  (The re-invocations are followed until the coordinator has
\* issued MaxIds ids.)
C22_RecoversByRerun ==
    \A n \in 1..(MaxRuns - 1) :
        (snap.pc = "aborted" /\ slog.fault /\ snap.runs = n) ~>
            \/ /\ snap.runs > n
               /\ snap.pc \in {"done", "aborted"}
               /\ SnapshotAccepted \/ slog.fault
            \/ nextId > MaxIds

\* C23: when the delete of an orphaned record fails, sync_runner_state goes
\* on: the run is not aborted by it, and moves to the next record, to the
\* registrations, to the next endpoint or to the writing of the config.
C23_DeleteFailureBestEffort ==
    [][\A h \in Hosts :
          (ctl[h].pc = "delete" /\ log'[h].failed) =>
              ctl'[h].pc \in {"get", "create", "list", "write"}]_vars

\* the host declares an executor config of that description for that endpoint
DeclaredAt(h, url, d) ==
    \E i \in DOMAIN Templates(h) : Templates(h)[i].url = url /\ Desc(h, i) = d

\* C24: once sync_runner_state has completed, every record a listing of the
\* run returned either has the description of an executor config the host
\* declares for that endpoint, or is gone from that coordinator.
C24_NoUndeclaredSurvives ==
    \A h \in Hosts :
        ctl[h].pc \in {"write", "done"} =>
            \A k \in DOMAIN log[h].info :
                LET e == log[h].info[k]
                IN DeclaredAt(h, e.url, e.description) \/ ~Exists(e.url, e.id)

\* C25: the token a declaration holds was fetched in this run from a record
\* of the coordinator at the declaration's own url, or issued in this run by
\* a registration at that url.
C25_TokenFromOwnEndpoint ==
    \A h \in Hosts :
        \A i \in DOMAIN tok[h] :
            tok[h][i] # NoToken =>
                \/ \E k \in DOMAIN log[h].info :
                      /\ log[h].info[k].token = tok[h][i]
                      /\ log[h].info[k].url = Templates(h)[i].url
                \/ \E k \in DOMAIN log[h].reg :
                      /\ log[h].reg[k].issued = tok[h][i]
                      /\ log[h].reg[k].url = Templates(h)[i].url

\* the records the coordinator holds of this host's runner of that type
LiveRecords(runner_type) ==
    {r \in coord[ApiUrl] : r.description = SnapshotDescription(runner_type)}

\* C26: between the runs of configure_runner the coordinator holds at most
\* one record of the host's shell runner and at most one of its batch
\* runner, and the token of every record it holds is stored in data.json.
C26_NoRegistrationLeak ==
    snap.pc \in {"idle", "done", "aborted"} =>
        /\ \A k \in DOMAIN RunnerTypes : Cardinality(LiveRecords(RunnerTypes[k])) <= 1
        /\ \A r \in coord[ApiUrl] :
              /\ disk.data.exists
              /\ \E e \in Range(disk.data.entries) : e.token = r.token

\* C27: when a run of configure_runner has ended, completed or aborted,
\* data.json and config.toml are both absent, or both there with the shell
\* and the batch token of config.toml equal to those of data.json.
C27_FilesAgree ==
    snap.pc \in {"done", "aborted"} =>
        \/ ~disk.data.exists /\ ~disk.toml.exists
        \/ /\ disk.data.exists
           /\ disk.toml.exists
           /\ disk.toml.shell_token = TokenOf(disk.data.entries, Shell)
           /\ disk.toml.batch_token = TokenOf(disk.data.entries, Batch)

\* C28: create_runner leaves the mapping it is given as it was, client_configs
\* included; the dictionary to_dict emits has no key client_configs: it
\* holds the other keys of the mapping with their values and, under
\* "runners", the executor configs, so no registration token and no
\* personal access token is in it.
C28_ClientConfigsKept ==
    call.fn = "create_runner" =>
        /\ call.config = call.given
        /\ "client_configs" \in DOMAIN call.config
        /\ "client_configs" \notin DOMAIN call.out
        /\ DOMAIN call.out = (DOMAIN call.given \ {"client_configs"}) \cup {"runners"}
        /\ \A k \in DOMAIN call.out \ {"runners"} : call.out[k] = call.given[k]
        /\ call.out["runners"] = call.configs
        /\ \A i \in DOMAIN call.configs :
              DOMAIN call.configs[i] \cap {"registration_token", "personal_access_token"} = {}

\* a config with two endpoints and a global setting, two executor configs
C28_Witness ==
    /\ call.fn = "create_runner"
    /\ Len(call.given["client_configs"]) = 2
    /\ "concurrent" \in DOMAIN call.given
    /\ Len(call.out["runners"]) = 2
    /\ "concurrent" \in DOMAIN call.out

====
